---- MODULE Spec2Model ----
(***************************************************************************)
(* A model of video-download.py: the filename sanitizer and uniquifier,    *)
(* the two download functions, the request observer and page-driving steps *)
(* of capture_video_url, and the listing / selection / dispatch code of    *)
(* the main block.                                                         *)
(*                                                                         *)
(* Text is modelled as a sequence of one-character strings, so that the    *)
(* character-level operations of the code (re.sub, re.search, str.strip,   *)
(* str.split, str.isdigit, int, Path.stem, Path.suffix, Path.with_suffix)  *)
(* are computed the way Python computes them.  Paths are single-component  *)
(* names relative to the working directory: every name that reaches        *)
(* unique_filename in the program has been through sanitize_filename,      *)
(* which replaces both separators.                                         *)
(***************************************************************************)
EXTENDS Integers, Sequences, FiniteSets, TLC

VARIABLES
    sanArgs,      \* sanitize_filename: the arguments of the pending / last call
    sanOut,       \* sanitize_filename: the value returned (None before the call)
    fs,           \* the names that exist in the destination directory
    dl,           \* the last call of a download function, with what it did
    uniqBase,     \* the path unique_filename is called on repeatedly
    uniqCall,     \* unique_filename: the last call (base, directory before, result)
    uniqLog,      \* unique_filename: the results of the calls on uniqBase, in order
    cpc,          \* capture_video_url: position in the coroutine
    video_urls,   \* capture_video_url / main: the captured URL list
    page_title,   \* capture_video_url / main: the page title (None when unset)
    routes,       \* every intercepted request, with what the observer did to it
    popupIdx,     \* capture_video_url: index of the next popup selector to try
    lastStep,     \* capture_video_url: the last page-driving step and its outcome
    failures,     \* capture_video_url: how many steps failed and were ignored
    captured,     \* what capture_video_url gave back to main
    videos_info,  \* main: the (idx, url, duration) triples of the listing
    listing,      \* main: the lines printed, as <<idx, url>> pairs
    selection,    \* main: the operator's selection line
    selected_indices, \* main: the parsed set of indices (None before parsing)
    mpc,          \* main: position in the main block
    loopIdx,      \* main: position of the dispatch loop in videos_info
    active,       \* main: the candidate whose download is running (0 when none)
    started,      \* main: the indices whose download was started, in order
    outcomes      \* main: the result of every finished download, in order

sanVars == <<sanArgs, sanOut>>
dlVars  == <<fs, dl>>
uniqVars == <<uniqBase, uniqCall, uniqLog>>
capVars == <<cpc, video_urls, page_title, routes, popupIdx, lastStep, failures, captured>>
mainVars == <<videos_info, listing, selection, selected_indices, mpc, loopIdx,
              active, started, outcomes>>
vars == <<sanVars, dlVars, uniqVars, capVars, mainVars>>

(***************************************************************************)
(* Bounds of the model.                                                    *)
(***************************************************************************)
MaxNameLen == 2     \* longest filename handed to sanitize_filename in SpecSanitize
MaxCalls == 3       \* most repeated calls of unique_filename on one base
MaxDownloads == 2   \* most names in the destination directory of SpecDownload
MaxRequests == 3    \* most requests intercepted during one capture
MaxTokens == 3      \* most comma-separated tokens in a selection line

(***************************************************************************)
(* Text helpers.                                                           *)
(***************************************************************************)
\* Python's None, as a value comparable with every text value.
None == <<"<None>">>

\* a call raising instead of returning a text
Raises == <<"<raises>">>

\* All texts over alphabet A of length 0..n.
RECURSIVE TextsUpTo(_, _)
TextsUpTo(A, n) ==
    IF n = 0 THEN {<<>>}
    ELSE LET shorter == TextsUpTo(A, n - 1)
         IN  shorter \cup {Append(s, c) : s \in {t \in shorter : Len(t) = n - 1}, c \in A}

\* s[i:]  (1-based i)
From(s, i) == SubSeq(s, i, Len(s))

\* str.startswith / str.endswith
StartsWith(s, p) == Len(s) >= Len(p) /\ SubSeq(s, 1, Len(p)) = p
EndsWith(s, p) == Len(s) >= Len(p) /\ SubSeq(s, Len(s) - Len(p) + 1, Len(s)) = p

\* p occurs in s as a substring (re.search of a literal)
Contains(s, p) == \E i \in 1..(Len(s) - Len(p) + 1) : SubSeq(s, i, i + Len(p) - 1) = p

\* str.strip(): whitespace removed at both ends
Whitespace == {" ", "\t"}
RECURSIVE LStrip(_)
LStrip(s) == IF s # <<>> /\ s[1] \in Whitespace THEN LStrip(Tail(s)) ELSE s
RECURSIVE RStrip(_)
RStrip(s) ==
    IF s # <<>> /\ s[Len(s)] \in Whitespace THEN RStrip(SubSeq(s, 1, Len(s) - 1)) ELSE s
Strip(s) == RStrip(LStrip(s))

DotMp4  == <<".", "m", "p", "4">>
DotM3u8 == <<".", "m", "3", "u", "8">>

(***************************************************************************)
(* sanitize_filename                                                       *)
(***************************************************************************)
\* the character class of the regular expression [\\/*?:"<>|]
InvalidChars == {"\\", "/", "*", "?", ":", "\"", "<", ">", "|"}

\* re.sub(r'[\\/*?:"<>|]', "_", filename)
ReSubInvalid(filename) ==
    [i \in 1..Len(filename) |-> IF filename[i] \in InvalidChars THEN "_" ELSE filename[i]]

sanitize_filename(filename, fallback_prefix) ==
    LET cleaned == Strip(ReSubInvalid(filename))
    IN  IF cleaned = <<>> \/ StartsWith(cleaned, <<".">>)
        THEN fallback_prefix \o DotMp4
        ELSE cleaned

\* the default of the fallback_prefix parameter
DefaultPrefix == <<"v", "i", "d", "e", "o">>

(***************************************************************************)
(* pathlib on single-component names                                       *)
(***************************************************************************)
\* name.rfind('.') + 1 : the 1-based position of the last dot, 0 when none
LastDot(name) ==
    LET dots == {i \in 1..Len(name) : name[i] = "."}
    IN  IF dots = {} THEN 0 ELSE CHOOSE i \in dots : \A j \in dots : j <= i

\* PurePath.suffix: the last dot starts a suffix unless it is the first or the
\* last character of the name
PathSuffix(name) ==
    LET i == LastDot(name)
    IN  IF 1 < i /\ i < Len(name) THEN From(name, i) ELSE <<>>

\* PurePath.stem
PathStem(name) ==
    LET i == LastDot(name)
    IN  IF 1 < i /\ i < Len(name) THEN SubSeq(name, 1, i - 1) ELSE name

\* PurePath.with_suffix(suffix)
PathWithSuffix(name, suffix) ==
    LET old == PathSuffix(name)
    IN  IF old = <<>> THEN name \o suffix
        ELSE SubSeq(name, 1, Len(name) - Len(old)) \o suffix

\* the working directory, and Path(name).resolve() of a name relative to it
Cwd == <<"/", "w">>
Resolve(name) == Cwd \o <<"/">> \o name

\* Path(name).exists(), name relative to the working directory
Exists(files, name) == Resolve(name) \in files

\* str(counter) of the f-string: the decimal digits of a natural number
Digit(d) == <<"0", "1", "2", "3", "4", "5", "6", "7", "8", "9">>[d + 1]
RECURSIVE IntToStr(_)
IntToStr(n) == IF n < 10 THEN <<Digit(n)>> ELSE Append(IntToStr(n \div 10), Digit(n % 10))

\* f"{stem}_{counter}{suffix}" put in place of the name (with_name)
NumberedName(base, counter) ==
    PathStem(base) \o <<"_">> \o IntToStr(counter) \o PathSuffix(base)

(***************************************************************************)
(* unique_filename                                                         *)
(***************************************************************************)
\* the while-loop: the value of counter when the loop returns
RECURSIVE UniqueCounter(_, _, _)
UniqueCounter(files, base, counter) ==
    IF ~Exists(files, NumberedName(base, counter)) THEN counter
    ELSE UniqueCounter(files, base, counter + 1)

\* unique_filename without the loop: the first numbered name is taken untested
MutUniqueFirstNumbered(files, base) ==
    IF ~Exists(files, base) THEN base ELSE NumberedName(base, 1)

unique_filename(files, base) ==
    IF ~Exists(files, base) THEN base
    ELSE NumberedName(base, UniqueCounter(files, base, 1))

(***************************************************************************)
(* URL helpers: urlparse(url).path, Path(..).name, unquote                 *)
(***************************************************************************)
\* the position of the first character of s that is in set cs, Len(s)+1 when none
FirstOf(s, cs) ==
    LET hits == {i \in 1..Len(s) : s[i] \in cs}
    IN  IF hits = {} THEN Len(s) + 1 ELSE CHOOSE i \in hits : \A j \in hits : i <= j

\* urlparse(url).path for a URL without scheme: everything before ? or #
UrlPath(url) == SubSeq(url, 1, FirstOf(url, {"?", "#"}) - 1)

\* Path(path).name: the last component, empty and "." components dropped
RECURSIVE PathName(_)
PathName(path) ==
    LET cut == FirstOf(path, {"/"})
        head == SubSeq(path, 1, cut - 1)
        rest == IF cut > Len(path) THEN <<>> ELSE PathName(From(path, cut + 1))
    IN  IF rest # <<>> THEN rest
        ELSE IF head = <<".">> THEN <<>> ELSE head

\* unquote: the percent escapes of the model's URLs are decoded, others are kept
RECURSIVE Unquote(_)
Unquote(s) ==
    IF s = <<>> THEN <<>>
    ELSE IF StartsWith(s, <<"%", "2", "0">>) THEN <<" ">> \o Unquote(From(s, 4))
    ELSE IF StartsWith(s, <<"%", "3", "A">>) THEN <<":">> \o Unquote(From(s, 4))
    ELSE <<s[1]>> \o Unquote(Tail(s))

UrlBasename(url) == Unquote(PathName(UrlPath(url)))

(***************************************************************************)
(* download_with_requests                                                  *)
(***************************************************************************)
\* What the HTTP transfer can do: succeed; requests.get raising (timeout,
\* connection error); raise_for_status raising (non-2xx); a write raising after
\* the file was opened (the partial file stays on disk).
TransferOutcomes == {"ok", "get_raises", "status_raises", "write_raises"}

\* What a call of a download function did: the directory afterwards, the path
\* it computed as its output, whether that path was opened for writing, the URL
\* and the number of invocations handed to the transcoder, whether completion
\* was printed, the value returned and whether an exception left the function.
Effect(files, target, opened, used_url, ffmpeg_calls, reported, result, raised) ==
    [files |-> files, target |-> target, opened |-> opened, used_url |-> used_url,
     ffmpeg_calls |-> ffmpeg_calls, reported |-> reported, result |-> result,
     raised |-> raised]

download_with_requests(files, url, filename_arg, outcome) ==
    LET filename0 == IF filename_arg = None THEN UrlBasename(url) ELSE filename_arg
        filename1 == sanitize_filename(filename0, DefaultPrefix)
        filename2 == unique_filename(files, filename1)
        filepath  == Resolve(filename2)
        opened    == outcome \in {"ok", "write_raises"}
    IN  Effect(IF opened THEN files \cup {filepath} ELSE files,
               filepath, opened, url, 0, outcome = "ok",
               IF outcome = "ok" THEN filepath ELSE None, FALSE)

(***************************************************************************)
(* download_m3u8                                                           *)
(***************************************************************************)
\* stream_info.resolution of a variant that reports none
NoResolution == <<>>

\* p.stream_info.resolution or (0,0)
ResolutionKey(p) == IF p.resolution = NoResolution THEN <<0, 0>> ELSE p.resolution

\* tuple comparison a < b
TupleLess(a, b) == a[1] < b[1] \/ (a[1] = b[1] /\ a[2] < b[2])

\* BestVariant with min in place of max
MutBestVariantMin(playlists) ==
    LET i == CHOOSE i \in 1..Len(playlists) :
                 \A j \in 1..Len(playlists) :
                     ~TupleLess(ResolutionKey(playlists[j]), ResolutionKey(playlists[i]))
    IN  playlists[i]

\* max(master.playlists, key=...): the first of the items with the greatest key
BestVariant(playlists) ==
    LET i == CHOOSE i \in 1..Len(playlists) :
                 /\ \A j \in 1..Len(playlists) :
                        ~TupleLess(ResolutionKey(playlists[i]), ResolutionKey(playlists[j]))
                 /\ \A j \in 1..(i - 1) :
                        TupleLess(ResolutionKey(playlists[j]), ResolutionKey(playlists[i]))
    IN  playlists[i]

\* The try block: the URL handed to the transcoder.  requests.get or m3u8.loads
\* raising, and max() raising on a variant playlist without playlists, are
\* caught with m3u8_url still unassigned.
WorkingUrl(m3u8_url, playlist) ==
    IF playlist.kind = "master" /\ playlist.playlists # <<>>
    THEN BestVariant(playlist.playlists).uri
    ELSE m3u8_url

\* What subprocess.run(cmd) can do: the transcoder exits 0 having written the
\* output; exits non-zero having opened (-y: truncated) the output; exits
\* non-zero before opening the output; or cannot be started, and
\* subprocess.run raises FileNotFoundError.
RunOutcomes == {"exit0", "exit1", "exit1_early", "not_found"}

download_m3u8(files, m3u8_url, filename_arg, playlist, run) ==
    LET filename1 == sanitize_filename(filename_arg, DefaultPrefix)
        filename2 == unique_filename(files, filename1)
        filename3 == Resolve(PathWithSuffix(filename2, DotMp4))
        opened    == run \in {"exit0", "exit1"}
    IN  Effect(IF opened THEN files \cup {filename3} ELSE files,
               filename3, opened, WorkingUrl(m3u8_url, playlist), 1,
               run # "not_found", None, run = "not_found")

(***************************************************************************)
(* Values the model draws its inputs from.                                 *)
(***************************************************************************)
\* URLs: a direct file, a playlist, a direct file with a generic name, a direct
\* file followed by a query, a script, and a direct file with an upper-case
\* extension.
UrlA      == <<"h", "/", "a", ".", "m", "p", "4">>
UrlB      == <<"h", "/", "b", ".", "m", "3", "u", "8">>
UrlVideo  == <<"h", "/", "v", "i", "d", "e", "o", ".", "m", "p", "4">>
UrlQuery  == <<"h", "/", "a", ".", "m", "p", "4", "?", "t">>
UrlScript == <<"h", "/", "x", ".", "j", "s">>
UrlUpper  == <<"h", "/", "a", ".", "M", "P", "4">>

\* filenames asked of the download functions
NameA     == <<"a", ".", "m", "p", "4">>
NameATs   == <<"a", ".", "t", "s">>
NameA1    == <<"a", "_", "1", ".", "m", "p", "4">>
NameBare  == <<"a">>
NameColon == <<"a", ":", "b", ".", "m", "p", "4">>
RequestedNames == {NameA, NameATs, NameA1, NameBare, NameColon, <<>>}

\* directories the program can be started in: at most one of these names exists
InitialDirs == {{}} \cup {{Resolve(n)} : n \in {NameA, NameA1, NameBare}}

\* variants of a master playlist
VarLo   == [uri |-> <<"l", "o">>, resolution |-> <<640, 360>>]
VarTall == [uri |-> <<"t", "l">>, resolution |-> <<640, 480>>]
VarHi   == [uri |-> <<"h", "i">>, resolution |-> <<1280, 720>>]
VarHi2  == [uri |-> <<"h", "2">>, resolution |-> <<1280, 720>>]
VarUn   == [uri |-> <<"u", "n">>, resolution |-> NoResolution]

\* what fetching and parsing the playlist can give
Playlists ==
    {[kind |-> k, playlists |-> <<>>] : k \in {"get_raises", "loads_raises", "media", "master"}}
    \cup {[kind |-> "master", playlists |-> v] :
            v \in {<<VarLo, VarHi, VarUn>>, <<VarHi, VarLo>>, <<VarUn>>, <<VarUn, VarLo>>,
                   <<VarLo, VarTall>>, <<VarHi, VarHi2>>}}

(***************************************************************************)
(* Idle values of the variables a specification does not use.              *)
(***************************************************************************)
NoArgs == [filename |-> <<>>, fallback_prefix |-> <<>>]
NoUniqCall == [fn |-> "none", base |-> <<>>, before |-> {}, result |-> None]
NoDl == [fn |-> "none", url |-> <<>>, filename |-> None,
         playlist |-> [kind |-> "none", playlists |-> <<>>], outcome |-> "none",
         before |-> {}, effect |-> Effect({}, None, FALSE, <<>>, 0, FALSE, None, FALSE)]

SanIdle  == sanArgs = NoArgs /\ sanOut = None
UniqIdle == uniqBase = <<>> /\ uniqCall = NoUniqCall /\ uniqLog = <<>>
DlIdle   == fs = {} /\ dl = NoDl

(***************************************************************************)
(* SpecSanitize: sanitize_filename applied to every filename over          *)
(* SanAlphabet of length up to MaxNameLen and every prefix of Prefixes.    *)
(***************************************************************************)
SanAlphabet == InvalidChars \cup {"a", ".", " "}
Prefixes == {DefaultPrefix, <<"c", "l", "i", "p">>, <<"a", ":", "b">>}

SanitizeCall ==
    /\ sanOut = None
    /\ sanOut' = sanitize_filename(sanArgs.filename, sanArgs.fallback_prefix)
    /\ UNCHANGED <<sanArgs, dlVars, uniqVars, capVars, mainVars>>

(***************************************************************************)
(* SpecUnique: unique_filename called on any base, and called repeatedly   *)
(* on uniqBase with the returned path created before the next call.        *)
(***************************************************************************)
UniqueBases == {NameA, NameA1, NameBare, NameATs}

UniqueCall(base) ==
    /\ uniqCall' = [fn |-> "unique_filename", base |-> base, before |-> fs,
                    result |-> unique_filename(fs, base)]
    /\ UNCHANGED <<fs, dl, uniqBase, uniqLog, sanVars, capVars, mainVars>>

UniqueThenCreate ==
    /\ Len(uniqLog) < MaxCalls
    /\ \E result \in {unique_filename(fs, uniqBase)} :
           /\ uniqCall' = [fn |-> "unique_filename", base |-> uniqBase, before |-> fs,
                           result |-> result]
           /\ uniqLog' = Append(uniqLog, result)
           /\ fs' = fs \cup {Resolve(result)}
    /\ UNCHANGED <<dl, uniqBase, sanVars, capVars, mainVars>>

(***************************************************************************)
(* SpecDownload: the two download functions called in any order, with any  *)
(* requested filename, on a directory that fills up.                       *)
(***************************************************************************)
CallDownloadWithRequests(url, filename, outcome) ==
    /\ Cardinality(fs) < MaxDownloads
    /\ \E e \in {download_with_requests(fs, url, filename, outcome)} :
           /\ dl' = [fn |-> "download_with_requests", url |-> url, filename |-> filename,
                     playlist |-> NoDl.playlist, outcome |-> outcome, before |-> fs,
                     effect |-> e]
           /\ fs' = e.files
    /\ UNCHANGED <<sanVars, uniqVars, capVars, mainVars>>

CallDownloadM3u8(url, filename, playlist, run) ==
    /\ Cardinality(fs) < MaxDownloads
    /\ \E e \in {download_m3u8(fs, url, filename, playlist, run)} :
           /\ dl' = [fn |-> "download_m3u8", url |-> url, filename |-> filename,
                     playlist |-> playlist, outcome |-> run, before |-> fs, effect |-> e]
           /\ fs' = e.files
    /\ UNCHANGED <<sanVars, uniqVars, capVars, mainVars>>

(***************************************************************************)
(* capture_video_url                                                       *)
(***************************************************************************)
\* re.search(r"\.mp4|\.m3u8", url)
MatchesMedia(url) == Contains(url, DotMp4) \/ Contains(url, DotM3u8)

Range(seq) == {seq[i] : i \in DOMAIN seq}

\* handle_route without the test for a URL already in the list
MutHandleRouteNoDedupe(urls, url) ==
    [video_urls |-> IF MatchesMedia(url) THEN Append(urls, url) ELSE urls,
     route |-> [url |-> url, continues |-> 1, overrides |-> FALSE, aborted |-> FALSE]]

\* handle_route with continue_ indented into the inner if
MutHandleRouteContinueInIf(urls, url) ==
    [video_urls |-> IF MatchesMedia(url) /\ url \notin Range(urls)
                    THEN Append(urls, url) ELSE urls,
     route |-> [url |-> url,
                continues |-> IF MatchesMedia(url) /\ url \notin Range(urls) THEN 1 ELSE 0,
                overrides |-> FALSE, aborted |-> FALSE]]

\* handle_route: the URL list afterwards and what was done with the route
\* (how often continue_ was called, with or without overrides, and whether
\* the route was aborted or fulfilled instead)
handle_route(urls, url) ==
    [video_urls |-> IF MatchesMedia(url) /\ url \notin Range(urls)
                    THEN Append(urls, url) ELSE urls,
     route |-> [url |-> url, continues |-> 1, overrides |-> FALSE, aborted |-> FALSE]]

\* the requests a page can make
RequestUrls == {UrlA, UrlB, UrlQuery, UrlScript, UrlUpper}

\* the coroutine is suspended in page.goto, page.title, a popup step or
\* asyncio.sleep, with the route handler registered and the browser open
Observing == cpc \in {"goto", "title", "popups", "sleep"}

HandleRoute(url) ==
    /\ Observing
    /\ Len(routes) < MaxRequests
    /\ LET h == handle_route(video_urls, url)
       IN  /\ video_urls' = h.video_urls
           /\ routes' = Append(routes, h.route)
    /\ UNCHANGED <<cpc, page_title, popupIdx, lastStep, failures, captured,
                   sanVars, dlVars, uniqVars, mainVars>>

NotCaptured == [status |-> "none", urls |-> <<>>, title |-> None]

\* await page.goto(page_url): an exception leaves the coroutine and asyncio.run
Goto(outcome) ==
    /\ cpc = "goto"
    /\ lastStep' = <<"goto", outcome>>
    /\ IF outcome = "raises"
       THEN /\ cpc' = "raised"
            /\ captured' = [status |-> "raised", urls |-> <<>>, title |-> None]
            /\ mpc' = "capture_error"
       ELSE /\ cpc' = "title"
            /\ UNCHANGED <<captured, mpc>>
    /\ UNCHANGED <<video_urls, page_title, routes, popupIdx, failures, sanVars, dlVars,
                   uniqVars, videos_info, listing, selection, selected_indices, loopIdx,
                   active, started, outcomes>>

\* what page.title() can return, and its raising
PageTitles == {<<>>, <<" ", "t", ":">>}

\* the try block around page.title()
TitleStep(outcome) ==
    /\ cpc = "title"
    /\ cpc' = "popups"
    /\ IF outcome = Raises
       THEN /\ lastStep' = <<"title", "raises">>
            /\ failures' = failures + 1
            /\ UNCHANGED page_title
       ELSE /\ lastStep' = <<"title", "ok">>
            /\ page_title' = IF outcome # <<>>
                             THEN sanitize_filename(Strip(outcome), DefaultPrefix) \o DotMp4
                             ELSE outcome
            /\ UNCHANGED failures
    /\ UNCHANGED <<video_urls, routes, popupIdx, captured, sanVars, dlVars, uniqVars,
                   mainVars>>

popup_selectors == <<"Accept", "I Agree", "Close", "Play">>

\* one iteration of the loop over popup_selectors: query_selector finds nothing,
\* the element is clicked, query_selector raises, or click raises
PopupOutcomes == {"absent", "clicked", "query_raises", "click_raises"}

\* PopupStep without the try: an exception of a popup step leaves the coroutine
MutPopupStepNoTry(outcome) ==
    /\ cpc = "popups"
    /\ lastStep' = <<popup_selectors[popupIdx], outcome>>
    /\ IF outcome \in {"query_raises", "click_raises"}
       THEN /\ cpc' = "raised"
            /\ captured' = [status |-> "raised", urls |-> <<>>, title |-> None]
            /\ UNCHANGED <<popupIdx, failures>>
       ELSE /\ popupIdx' = popupIdx + 1
            /\ cpc' = IF popupIdx = Len(popup_selectors) THEN "sleep" ELSE "popups"
            /\ UNCHANGED <<captured, failures>>
    /\ UNCHANGED <<video_urls, page_title, routes, sanVars, dlVars, uniqVars, mainVars>>

PopupStep(outcome) ==
    /\ cpc = "popups"
    /\ lastStep' = <<popup_selectors[popupIdx], outcome>>
    /\ failures' = IF outcome \in {"query_raises", "click_raises"}
                   THEN failures + 1 ELSE failures
    /\ popupIdx' = popupIdx + 1
    /\ cpc' = IF popupIdx = Len(popup_selectors) THEN "sleep" ELSE "popups"
    /\ UNCHANGED <<video_urls, page_title, routes, captured, sanVars, dlVars, uniqVars,
                   mainVars>>

\* await asyncio.sleep(25)
Sleep ==
    /\ cpc = "sleep"
    /\ cpc' = "close"
    /\ lastStep' = <<"sleep", "ok">>
    /\ UNCHANGED <<video_urls, page_title, routes, popupIdx, failures, captured,
                   sanVars, dlVars, uniqVars, mainVars>>

\* await browser.close(); return video_urls, page_title
CloseAndReturn ==
    /\ cpc = "close"
    /\ cpc' = "returned"
    /\ lastStep' = <<"close", "ok">>
    /\ captured' = [status |-> "returned", urls |-> video_urls, title |-> page_title]
    /\ UNCHANGED <<video_urls, page_title, routes, popupIdx, failures,
                   sanVars, dlVars, uniqVars, mainVars>>

(***************************************************************************)
(* The main block: listing                                                 *)
(***************************************************************************)
\* if not video_urls: exit()
MainCheck ==
    /\ mpc = "capture"
    /\ captured.status = "returned"
    /\ mpc' = IF video_urls = <<>> THEN "exit" ELSE "gather"
    /\ UNCHANGED <<videos_info, listing, selection, selected_indices, loopIdx, active,
                   started, outcomes, sanVars, dlVars, uniqVars, capVars>>

\* a duration is <<seconds>>, or <<>> for None
ProbedDurations == {<<>>, <<65>>}

\* the loop that fills videos_info; probed[i] is what get_video_duration, or the
\* sum over the playlist's segments, gives for the i-th URL
Gather(probed) ==
    /\ mpc = "gather"
    /\ videos_info' =
          [i \in 1..Len(video_urls) |->
              [idx |-> i, url |-> video_urls[i],
               duration |-> IF EndsWith(video_urls[i], DotMp4)
                               \/ EndsWith(video_urls[i], DotM3u8)
                            THEN probed[i] ELSE <<>>]]
    /\ mpc' = "show"
    /\ UNCHANGED <<listing, selection, selected_indices, loopIdx, active, started,
                   outcomes, sanVars, dlVars, uniqVars, capVars>>

\* f"{int(duration//60)}m {int(duration%60)}s" if duration else "Unknown"
DurStr(duration) ==
    IF duration # <<>> /\ duration[1] # 0
    THEN IntToStr(duration[1] \div 60) \o <<"m", " ">> \o IntToStr(duration[1] % 60) \o <<"s">>
    ELSE <<"U", "n", "k", "n", "o", "w", "n">>

\* the loop that prints f"{idx}. {url} (Duration: {dur_str})"
Show ==
    /\ mpc = "show"
    /\ listing' = [i \in 1..Len(videos_info) |->
                     [number |-> IntToStr(videos_info[i].idx), url |-> videos_info[i].url,
                      dur_str |-> DurStr(videos_info[i].duration)]]
    /\ mpc' = "select"
    /\ UNCHANGED <<videos_info, selection, selected_indices, loopIdx, active, started,
                   outcomes, sanVars, dlVars, uniqVars, capVars>>

(***************************************************************************)
(* The main block: selection                                               *)
(***************************************************************************)
\* str.split(sep): the pieces between the separators, in order
RECURSIVE Split(_, _)
Split(s, sep) ==
    LET cut == FirstOf(s, {sep})
    IN  IF cut > Len(s) THEN <<s>>
        ELSE <<SubSeq(s, 1, cut - 1)>> \o Split(From(s, cut + 1), sep)

\* the characters int() accepts as decimal digits
DecimalDigits == {"0", "1", "2", "3", "4", "5", "6", "7", "8", "9"}

\* the characters str.isdigit() accepts: the decimal digits and the digits "that
\* need special handling, such as the compatibility superscript digits"
DigitChars == DecimalDigits \cup {"²"}

\* str.isdigit()
IsDigit(t) == t # <<>> /\ \A i \in 1..Len(t) : t[i] \in DigitChars

\* int(t) raises ValueError
IntRaises(t) == t = <<>> \/ \E i \in 1..Len(t) : t[i] \notin DecimalDigits

\* int(t) when it does not raise
RECURSIVE IntOf(_)
IntOf(t) ==
    IF t = <<>> THEN 0
    ELSE 10 * IntOf(SubSeq(t, 1, Len(t) - 1))
         + (CHOOSE d \in 0..9 : Digit(d) = t[Len(t)])

\* the tokens the generator expression converts: s.strip() for s in
\* selection.split(",") if s.strip().isdigit()
DigitTokens(line) ==
    LET pieces == Split(line, ",")
    IN  {Strip(pieces[i]) : i \in {j \in 1..Len(pieces) : IsDigit(Strip(pieces[j]))}}

\* ParseSelection with the indices taken as zero-based
MutParseSelectionZeroBased(line) ==
    [raised |-> \E t \in DigitTokens(line) : IntRaises(t),
     indices |-> {IntOf(t) - 1 : t \in {u \in DigitTokens(line) : ~IntRaises(u)}}]

\* set(int(s.strip()) for ...): raised is whether int() raised
ParseSelection(line) ==
    [raised |-> \E t \in DigitTokens(line) : IntRaises(t),
     indices |-> {IntOf(t) : t \in {u \in DigitTokens(line) : ~IntRaises(u)}}]

\* selection lines: up to MaxTokens of these tokens, joined by commas
Tokens == {<<"1">>, <<" ", "3">>, <<"a", "b", "c">>, <<"9", "9">>, <<"²">>}

RECURSIVE Join(_)
Join(ts) == IF Len(ts) = 1 THEN ts[1] ELSE ts[1] \o <<",">> \o Join(Tail(ts))

RECURSIVE TokenSeqs(_)
TokenSeqs(n) ==
    IF n = 0 THEN {<<>>}
    ELSE LET shorter == TokenSeqs(n - 1)
         IN  shorter \cup {Append(s, t) : s \in {u \in shorter : Len(u) = n - 1}, t \in Tokens}

SelectionLines == {<<>>} \cup {Join(ts) : ts \in TokenSeqs(MaxTokens) \ {<<>>}}

\* selection = input(..); selected_indices = set(..)
Select(line) ==
    /\ mpc = "select"
    /\ selection' = line
    /\ LET parsed == ParseSelection(line)
       IN  IF parsed.raised
           THEN mpc' = "selection_error" /\ UNCHANGED <<selected_indices, loopIdx>>
           ELSE mpc' = "loop" /\ selected_indices' = parsed.indices /\ loopIdx' = 1
    /\ UNCHANGED <<videos_info, listing, active, started, outcomes, sanVars, dlVars,
                   uniqVars, capVars>>

(***************************************************************************)
(* The main block: the dispatch loop                                       *)
(***************************************************************************)
UpperCase == <<"A", "B", "C", "D", "E", "F", "G", "H", "I", "J", "K", "L", "M",
               "N", "O", "P", "Q", "R", "S", "T", "U", "V", "W", "X", "Y", "Z">>
LowerCase == <<"a", "b", "c", "d", "e", "f", "g", "h", "i", "j", "k", "l", "m",
               "n", "o", "p", "q", "r", "s", "t", "u", "v", "w", "x", "y", "z">>

\* str.lower()
Lower(t) ==
    [i \in 1..Len(t) |->
        IF \E k \in 1..26 : UpperCase[k] = t[i]
        THEN LowerCase[CHOOSE k \in 1..26 : UpperCase[k] = t[i]]
        ELSE t[i]]

VideoUnderscore == <<"v", "i", "d", "e", "o", "_">>
GenericNames == {<<"v", "i", "d", "e", "o", ".", "m", "p", "4">>,
                 <<"f", "i", "l", "e", ".", "m", "p", "4">>, <<>>}

\* x or y, for a title that is None or empty
TitleOr(title, other) == IF title = None \/ title = <<>> THEN other ELSE title

\* the filename the loop body hands to the download function
DispatchFilename(idx, url, title) ==
    IF EndsWith(url, DotM3u8)
    THEN TitleOr(title, VideoUnderscore \o IntToStr(idx)) \o DotMp4
    ELSE IF Lower(UrlBasename(url)) \in GenericNames
         THEN TitleOr(title, VideoUnderscore \o IntToStr(idx) \o DotMp4)
         ELSE UrlBasename(url)

\* for idx, url, _ in videos_info: the item of the k-th iteration
LoopItem(info, k) == info[k]

\* an iteration whose idx is not in selected_indices
LoopSkip ==
    /\ mpc = "loop" /\ active = 0
    /\ loopIdx <= Len(videos_info)
    /\ LoopItem(videos_info, loopIdx).idx \notin selected_indices
    /\ loopIdx' = loopIdx + 1
    /\ UNCHANGED <<videos_info, listing, selection, selected_indices, mpc, active,
                   started, outcomes, sanVars, dlVars, uniqVars, capVars>>

\* an iteration whose idx is in selected_indices: the download function is called
DownloadStart ==
    /\ mpc = "loop" /\ active = 0
    /\ loopIdx <= Len(videos_info)
    /\ LoopItem(videos_info, loopIdx).idx \in selected_indices
    /\ active' = LoopItem(videos_info, loopIdx).idx
    /\ started' = Append(started, LoopItem(videos_info, loopIdx).idx)
    /\ UNCHANGED <<videos_info, listing, selection, selected_indices, mpc, loopIdx,
                   outcomes, sanVars, dlVars, uniqVars, capVars>>

\* the effect of the download function the loop body calls
Dispatch(files, item, title, transfer, playlist, run) ==
    IF EndsWith(item.url, DotM3u8)
    THEN download_m3u8(files, item.url, DispatchFilename(item.idx, item.url, title),
                       playlist, run)
    ELSE download_with_requests(files, item.url,
                                DispatchFilename(item.idx, item.url, title), transfer)

\* the download function returns, or an exception leaves it and the loop
DownloadReturn(transfer, playlist, run) ==
    /\ mpc = "loop" /\ active # 0
    /\ (transfer = "none") = EndsWith(LoopItem(videos_info, loopIdx).url, DotM3u8)
    /\ \E e \in {Dispatch(fs, LoopItem(videos_info, loopIdx), page_title,
                          transfer, playlist, run)} :
           /\ fs' = e.files
           /\ outcomes' = Append(outcomes, [idx |-> active, raised |-> e.raised,
                                            result |-> e.result])
           /\ IF e.raised
              THEN mpc' = "download_error" /\ UNCHANGED loopIdx
              ELSE loopIdx' = loopIdx + 1 /\ UNCHANGED mpc
    /\ active' = 0
    /\ UNCHANGED <<videos_info, listing, selection, selected_indices, started, dl,
                   sanVars, uniqVars, capVars>>

\* the loop is exhausted and the program ends
LoopEnd ==
    /\ mpc = "loop" /\ active = 0
    /\ loopIdx > Len(videos_info)
    /\ mpc' = "done"
    /\ UNCHANGED <<videos_info, listing, selection, selected_indices, loopIdx, active,
                   started, outcomes, sanVars, dlVars, uniqVars, capVars>>

(***************************************************************************)
(* Specifications                                                          *)
(***************************************************************************)
CapIdle ==
    /\ cpc = "idle" /\ video_urls = <<>> /\ page_title = None /\ routes = <<>>
    /\ popupIdx = 1 /\ lastStep = <<"none", "none">> /\ failures = 0
    /\ captured = NotCaptured
MainIdle ==
    /\ videos_info = <<>> /\ listing = <<>> /\ selection = <<>>
    /\ selected_indices = {} /\ mpc = "idle" /\ loopIdx = 1 /\ active = 0
    /\ started = <<>> /\ outcomes = <<>>

\* sanitize_filename on every bounded input
InitSanitize ==
    /\ sanArgs \in [filename : TextsUpTo(SanAlphabet, MaxNameLen), fallback_prefix : Prefixes]
    /\ sanOut = None
    /\ DlIdle /\ UniqIdle /\ CapIdle /\ MainIdle
NextSanitize == SanitizeCall
SpecSanitize == InitSanitize /\ [][NextSanitize]_vars

\* unique_filename
InitUnique ==
    /\ uniqBase \in UniqueBases
    /\ uniqCall = NoUniqCall
    /\ uniqLog = <<>>
    /\ fs \in SUBSET {Resolve(n) : n \in {NameA, NameA1, NameBare,
                                           NumberedName(NameA, 2)}}
    /\ dl = NoDl
    /\ SanIdle /\ CapIdle /\ MainIdle
NextUnique ==
    \/ \E base \in UniqueBases : UniqueCall(base)
    \/ UniqueThenCreate
SpecUnique == InitUnique /\ [][NextUnique]_vars

\* the download functions
InitDownload ==
    /\ fs \in InitialDirs
    /\ dl = NoDl
    /\ SanIdle /\ UniqIdle /\ CapIdle /\ MainIdle
NextDownload ==
    \/ \E url \in {UrlA, UrlVideo, UrlQuery}, outcome \in TransferOutcomes :
          CallDownloadWithRequests(url, None, outcome)
    \/ \E filename \in RequestedNames, outcome \in TransferOutcomes :
          CallDownloadWithRequests(UrlA, filename, outcome)
    \/ \E filename \in RequestedNames, playlist \in Playlists, run \in RunOutcomes :
          CallDownloadM3u8(UrlB, filename, playlist, run)
SpecDownload == InitDownload /\ [][NextDownload]_vars

\* capture_video_url, and the main block up to the printed listing
InitCapture ==
    /\ cpc = "goto" /\ video_urls = <<>> /\ page_title = None /\ routes = <<>>
    /\ popupIdx = 1 /\ lastStep = <<"none", "none">> /\ failures = 0
    /\ captured = NotCaptured
    /\ videos_info = <<>> /\ listing = <<>> /\ selection = <<>>
    /\ selected_indices = {} /\ mpc = "capture" /\ loopIdx = 1 /\ active = 0
    /\ started = <<>> /\ outcomes = <<>>
    /\ SanIdle /\ UniqIdle /\ DlIdle
NextCapture ==
    \/ \E url \in RequestUrls : HandleRoute(url)
    \/ \E outcome \in {"ok", "raises"} : Goto(outcome)
    \/ \E outcome \in PageTitles \cup {Raises} : TitleStep(outcome)
    \/ \E outcome \in PopupOutcomes : PopupStep(outcome)
    \/ Sleep
    \/ CloseAndReturn
    \/ MainCheck
    \/ \E probed \in [1..Len(video_urls) -> ProbedDurations] : Gather(probed)
    \/ Show
SpecCapture == InitCapture /\ [][NextCapture]_vars

\* capture results: the duplicate-free lists of matching URLs, not empty
RECURSIVE CaptureLists(_)
CaptureLists(n) ==
    IF n = 0 THEN {<<>>}
    ELSE LET shorter == CaptureLists(n - 1)
         IN  shorter \cup {Append(l, u) : l \in {m \in shorter : Len(m) = n - 1},
                                          u \in {UrlA, UrlB, UrlVideo}}

\* the main block from the listing to the end of the dispatch loop
InitMain ==
    /\ cpc = "returned"
    /\ video_urls \in {l \in CaptureLists(MaxRequests) :
                          l # <<>> /\ Cardinality(Range(l)) = Len(l)}
    /\ page_title \in {None, <<"t", ".", "m", "p", "4">>}
    /\ routes = <<>> /\ popupIdx = Len(popup_selectors) + 1
    /\ lastStep = <<"close", "ok">> /\ failures = 0
    /\ captured = [status |-> "returned", urls |-> video_urls, title |-> page_title]
    /\ videos_info = <<>> /\ listing = <<>> /\ selection = <<>>
    /\ selected_indices = {} /\ mpc = "gather" /\ loopIdx = 1 /\ active = 0
    /\ started = <<>> /\ outcomes = <<>>
    /\ fs \in {{}, {Resolve(NameA)}}
    /\ dl = NoDl
    /\ SanIdle /\ UniqIdle
NextMain ==
    \/ Gather([i \in 1..Len(video_urls) |-> <<>>])
    \/ Show
    \/ \E line \in SelectionLines : Select(line)
    \/ LoopSkip
    \/ DownloadStart
    \/ \E transfer \in TransferOutcomes :
          DownloadReturn(transfer, NoDl.playlist, "none")
    \/ \E playlist \in Playlists, run \in RunOutcomes :
          DownloadReturn("none", playlist, run)
    \/ LoopEnd
SpecMain == InitMain /\ [][NextMain]_vars

(***************************************************************************)
(* Properties                                                              *)
(***************************************************************************)
\* the URLs of the intercepted requests, in order
RequestSeq == [i \in DOMAIN routes |-> routes[i].url]

\* a sequence without the later occurrences of its items
RECURSIVE FirstOccurrences(_)
FirstOccurrences(seq) ==
    IF seq = <<>> THEN <<>>
    ELSE LET front == FirstOccurrences(SubSeq(seq, 1, Len(seq) - 1))
         IN  IF seq[Len(seq)] \in Range(front) THEN front ELSE Append(front, seq[Len(seq)])

\* C1: at every moment of a capture the candidate list is the sequence of the
\* distinct intercepted URLs that match \.mp4 or \.m3u8, in order of first
\* occurrence; that is the list capture_video_url returns; and the k-th line of
\* the listing shows the number k with the k-th URL of that order.
C1_CandidatesInFirstSeenOrder ==
    LET expected == FirstOccurrences(SelectSeq(RequestSeq, MatchesMedia))
    IN  /\ video_urls = expected
        /\ captured.status = "returned" => captured.urls = expected
        /\ \A k \in DOMAIN videos_info :
              videos_info[k].idx = k /\ videos_info[k].url = expected[k]
        /\ \A k \in DOMAIN listing :
              listing[k].number = IntToStr(k) /\ listing[k].url = expected[k]
        /\ mpc = "select" => Len(listing) = Len(expected)

\* C1 witness: a matching URL was requested twice, a second URL once, and the
\* listing of the two candidates has been printed.
C1_Witness ==
    /\ mpc = "select"
    /\ Len(listing) = 2
    /\ \E i, j \in DOMAIN routes :
          i < j /\ routes[i].url = routes[j].url /\ MatchesMedia(routes[i].url)

\* C2: every intercepted request was continued exactly once, without
\* overrides, and was not aborted.
C2_EveryRequestContinuedOnce ==
    \A i \in DOMAIN routes :
        routes[i].continues = 1 /\ ~routes[i].overrides /\ ~routes[i].aborted

\* C2 witness: the observer has handled a request that does not match, the
\* first occurrence of a matching URL and a duplicate of it.
C2_Witness ==
    /\ \E i \in DOMAIN routes : ~MatchesMedia(routes[i].url)
    /\ \E i, j \in DOMAIN routes :
          i < j /\ routes[i].url = routes[j].url /\ MatchesMedia(routes[i].url)

\* C3: a download that opens its output path for writing never opens a path
\* that existed in the directory when the download started.
C3_NoDownloadOverwrites ==
    (dl.fn \in {"download_with_requests", "download_m3u8"} /\ dl.effect.opened)
        => dl.effect.target \notin dl.before

\* the base itself for 0, the numbered name otherwise
Suffixed(base, k) == IF k = 0 THEN base ELSE NumberedName(base, k)

\* C4: unique_filename returns a path that does not exist; the base itself
\* when the base does not exist; otherwise stem_k+suffix for the smallest
\* k >= 1 whose path does not exist; and the counters of repeated calls on one
\* base, each returned path created before the next call, strictly increase.
C4_UniqueFilename ==
    /\ uniqCall.fn = "unique_filename" =>
          /\ ~Exists(uniqCall.before, uniqCall.result)
          /\ ~Exists(uniqCall.before, uniqCall.base) => uniqCall.result = uniqCall.base
          /\ Exists(uniqCall.before, uniqCall.base) =>
                \E k \in 1..(Cardinality(uniqCall.before) + 1) :
                    /\ uniqCall.result = NumberedName(uniqCall.base, k)
                    /\ \A j \in 1..(k - 1) :
                          Exists(uniqCall.before, NumberedName(uniqCall.base, j))
    /\ \A i, j \in DOMAIN uniqLog :
          i < j => \E ki, kj \in 0..(Cardinality(fs) + 1) :
                       /\ ki < kj
                       /\ uniqLog[i] = Suffixed(uniqBase, ki)
                       /\ uniqLog[j] = Suffixed(uniqBase, kj)

\* C4 witness: two calls in a row on a base that was occupied at the first,
\* the counter of the second skipping a number that was taken.
C4_Witness ==
    /\ Len(uniqLog) = 2
    /\ uniqLog[1] = NumberedName(uniqBase, 1)
    /\ uniqLog[2] = NumberedName(uniqBase, 3)

\* the values of the tokens of a selection line that are decimal numbers, in
\* the order of the line
NumericTokenValues(line) ==
    LET pieces == Split(line, ",")
        IsNumeric(t) == t # <<>> /\ \A i \in 1..Len(t) : t[i] \in DecimalDigits
        RECURSIVE Values(_)
        Values(k) ==
            IF k > Len(pieces) THEN <<>>
            ELSE (IF IsNumeric(Strip(pieces[k])) THEN <<IntOf(Strip(pieces[k]))>> ELSE <<>>)
                 \o Values(k + 1)
    IN  Values(1)

\* the tokens that name a captured candidate, in the order of the line
ValidTokenValues == SelectSeq(NumericTokenValues(selection),
                              LAMBDA v : v \in 1..Len(videos_info))

\* the members of a set of numbers in ascending order
RECURSIVE Ascending(_)
Ascending(set) ==
    IF set = {} THEN <<>>
    ELSE LET least == CHOOSE x \in set : \A y \in set : x <= y
         IN  <<least>> \o Ascending(set \ {least})

\* C5 as stated: the k-th download started is the candidate named by the k-th
\* valid token of the selection line.
C5_StartedInTokenOrder ==
    \A k \in DOMAIN started :
        k <= Len(ValidTokenValues) /\ started[k] = ValidTokenValues[k]

\* C5 amended: the downloads are started in ascending candidate index, the
\* k-th download started being the candidate with the k-th smallest index that
\* a token of the line names; at most one download is running, and one is
\* started only when every earlier one has returned.
C5_StartedInListingOrder ==
    LET order == Ascending(Range(ValidTokenValues))
    IN  /\ Len(started) <= Len(order)
        /\ \A k \in DOMAIN started : started[k] = order[k]
        /\ mpc = "done" => started = order
        /\ active # 0 => /\ started # <<>>
                         /\ active = started[Len(started)]
                         /\ Len(outcomes) = Len(started) - 1
        /\ active = 0 => Len(outcomes) = Len(started)

\* C5 witness: the line names two candidates in descending order and both
\* downloads have been started and have returned.
C5_Witness ==
    /\ mpc = "done"
    /\ Len(started) = 2 /\ Len(outcomes) = 2
    /\ ValidTokenValues # <<>> /\ ValidTokenValues[1] = started[2]

\* C6: no selection line raises an error, and when the loop has run to its end
\* the candidates dispatched are exactly those whose index is the value of a
\* numeric token of the line.
C6_SelectionDropsBadTokens ==
    /\ mpc # "selection_error"
    /\ mpc = "done" => Range(started) = Range(ValidTokenValues)

\* C7: when the dispatch loop has ended, by exhaustion or by an exception, the
\* download of every selected candidate has been started.
C7_FailureSparesSiblings ==
    mpc \in {"done", "download_error"} =>
        \A i \in selected_indices \cap (1..Len(videos_info)) : i \in Range(started)

\* C8: the coroutine is left by an exception exactly when page.goto raised, and
\* then nothing is returned; after a failure of page.title() the title is unset
\* and the popup loop is next; after a failure in a popup step the next
\* selector, or the wait, is next; the selectors are tried in the order
\* Accept, I Agree, Close, Play; and the coroutine returns, after all four,
\* the accumulated URLs and the title.
C8_OnlyNavigationAborts ==
    /\ (cpc = "raised") <=> (lastStep = <<"goto", "raises">>)
    /\ cpc = "raised" => captured.status = "raised" /\ captured.urls = <<>>
    /\ lastStep = <<"title", "raises">> =>
          cpc = "popups" /\ popupIdx = 1 /\ page_title = None
    /\ \A i \in 1..4 :
          lastStep[1] = <<"Accept", "I Agree", "Close", "Play">>[i] =>
              /\ popupIdx = i + 1
              /\ cpc = IF i = 4 THEN "sleep" ELSE "popups"
    /\ (captured.status = "returned") <=> (cpc = "returned")
    /\ cpc = "returned" =>
          /\ popupIdx = 5
          /\ captured.urls = video_urls /\ captured.title = page_title

\* C8 witness: page.title() and all four popup steps failed, and the coroutine
\* has returned the URLs it accumulated.
C8_Witness ==
    /\ cpc = "returned"
    /\ failures = 5
    /\ captured.urls # <<>> /\ captured.title = None

\* C9: the value sanitize_filename returns contains none of \ / * ? : " < > |
C9_NoInvalidCharacter ==
    sanOut # None => \A i \in 1..Len(sanOut) : sanOut[i] \notin InvalidChars

\* C10: download_m3u8 invokes the transcoder once; with the original URL when
\* fetching or parsing the playlist failed, when the variant playlist has no
\* variants and when the playlist is a media playlist; with the URI of a
\* variant of greatest resolution when the master playlist has variants; and
\* it reports completion whenever the invocation returned.
C10_PlaylistFailureNotFatal ==
    dl.fn = "download_m3u8" =>
        LET p == dl.playlist
            e == dl.effect
            Res(v) == IF v.resolution = <<>> THEN <<0, 0>> ELSE v.resolution
        IN  /\ e.ffmpeg_calls = 1
            /\ (p.kind \in {"get_raises", "loads_raises", "media"} \/ p.playlists = <<>>)
                  => e.used_url = dl.url
            /\ (p.kind = "master" /\ p.playlists # <<>>) =>
                  \E i \in DOMAIN p.playlists :
                      /\ e.used_url = p.playlists[i].uri
                      /\ \A j \in DOMAIN p.playlists :
                            ~TupleLess(Res(p.playlists[i]), Res(p.playlists[j]))
            /\ dl.outcome # "not_found" => e.reported

\* C10 witness: the playlist could not be parsed, the transcoder was given the
\* original URL and exited non-zero, and completion was reported.
C10_Witness ==
    /\ dl.fn = "download_m3u8"
    /\ dl.playlist.kind = "loads_raises"
    /\ dl.outcome = "exit1"
    /\ dl.effect.used_url = dl.url /\ dl.effect.reported

====
